---- MODULE Spec2Model ----
(***************************************************************************)
(* Slot reservation and reminder scheduling of the queue bot:              *)
(*   - SQLiteStorage   (internal/storage/sqlite/sqlite.go): the slots      *)
(*     table and its conditional UPDATE statements;                       *)
(*   - MemoryScheduler (internal/scheduler/memory/scheduler.go): the map   *)
(*     of time.AfterFunc timers and the handleNotification goroutines;     *)
(*   - Service         (internal/bot/service): ReserveSlot, which composes *)
(*     the two, and ReschedulePendingNotifications, run by main at start.  *)
(* Every SQL statement and every critical section of the scheduler's      *)
(* mutex is one atomic step; Service.ReserveSlot and handleNotification    *)
(* are sequences of such steps and interleave with everything else.        *)
(***************************************************************************)
EXTENDS Integers, FiniteSets, Sequences, TLC

\* ---- bounds of the model ------------------------------------------------
NSlots == 2          \* rows of the slots table
NCallers == 2        \* request goroutines; caller t acts for chat id t
MaxTimers == 2       \* timers and notification goroutines alive at once
MaxTime == 1         \* the clock runs over 0..MaxTime
TicksPerDay == 2     \* start times per calendar date
MaxRestarts == 1     \* process restarts
MaxSent == 2         \* the per-reservation reminder counter saturates here
MaxDate == 1         \* slots are generated for the dates 0..MaxDate
MaxCapacity == 2     \* TokenBucket capacities 1..MaxCapacity
MaxRate == 2         \* TokenBucket refill rates 0..MaxRate, in tokens per second
TicksPerSecond == 2  \* the rate limiter's clock counts half seconds
MaxBucketClock == 6  \* ... over 0..MaxBucketClock
MaxRows == 4         \* rows of the slots table of database.go
NLockSlots == 1      \* slots the step-by-step scheduler calls are made for

SlotIds == 1..NSlots
MissingSlot == NSlots + 1          \* an id with no row in the table
Callers == 1..NCallers
NoUser == 0                        \* user_chat_id IS NULL
TimerIds == 1..MaxTimers
NoTimer == 0                       \* no entry in the timers map

VARIABLES
    slots,      \* slots table: id -> [date, startTime, owner, notified]
    now,        \* wall clock
    pc,         \* Service.ReserveSlot: position of each request goroutine
    arg,        \* ... its slotID argument
    snap,       \* ... the *models.Slot GetSlotByID returned to it
    ev,         \* the call that returned in the last step, if one did
    timers,     \* MemoryScheduler.timers: slot id -> timer
    tm,         \* the timers and the goroutines running their callbacks
    stopped,    \* MemoryScheduler.stopped
    restarts,   \* process restarts so far
    won,        \* history: callers whose ReserveSlot succeeded since the slot was last free
    sent,       \* history: reminders delivered for the current reservation
    afterCancel, \* history: the slot is free by a successful CancelSlot
    users,      \* users table: the chat ids that have a row
    foreignKeys, \* PRAGMA foreign_keys of the connection the pool holds
    tb,         \* a TokenBucket: [capacity, tokens, refillRate, lastRefill]
    tbClock,    \* time.Now() of the rate limiter, in ticks since the bucket was made
    tbAllowed,  \* history: the Allow calls that returned true
    book        \* slots table of database.go: id -> [startTime, user]

vars == <<slots, now, pc, arg, snap, ev, timers, tm, stopped, restarts,
          won, sent, afterCancel, users, foreignKeys, tb, tbClock, tbAllowed, book>>

\* everything but the rate limiter and ev
appVars == <<slots, now, pc, arg, snap, timers, tm, stopped, restarts,
             won, sent, afterCancel, users, foreignKeys, book>>

\* ---- models.Slot and the time of a slot ----------------------------------
\* fmt.Sprintf("%s %s", slot.Date, slot.StartTime) parsed with
\* time.ParseInLocation("2006-01-02 15:04", ..., time.Local)
ParseSlotTime(date, startTime) == date * TicksPerDay + startTime

NoSnap == [slot |-> 0, date |-> 0, startTime |-> 0, chat |-> NoUser]
\* what the call that returned in the last step returned
NoEv == [op |-> "none", err |-> "nil"]
Returned(op, err) == [op |-> op, err |-> err]
FreeTimer == [st |-> "free", slot |-> 0, chat |-> NoUser, at |-> 0, removedBy |-> "none"]

\* ---- middleware.TokenBucket -------------------------------------------------------
Min(a, b) == IF a <= b THEN a ELSE b

NewTokenBucket(capacity, refillRate, clock) ==
    [capacity |-> capacity, tokens |-> capacity, refillRate |-> refillRate,
     lastRefill |-> clock]

\* faulty variant: the refill is not cut at the capacity
AllowUncapped(b, clock) ==
    LET tokensToAdd == ((clock - b.lastRefill) \div TicksPerSecond) * b.refillRate
        filled == b.tokens + tokensToAdd
    IN [ok |-> filled > 0,
        tb |-> [b EXCEPT !.tokens = IF filled > 0 THEN filled - 1 ELSE filled,
                         !.lastRefill = clock]]

\* TokenBucket.Allow under tb.mu: int(elapsed.Seconds()) drops the fraction of
\* a second, and lastRefill is set to now whether or not a token was added
Allow(b, clock) ==
    LET tokensToAdd == ((clock - b.lastRefill) \div TicksPerSecond) * b.refillRate
        filled == Min(b.capacity, b.tokens + tokensToAdd)
    IN [ok |-> filled > 0,
        tb |-> [b EXCEPT !.tokens = IF filled > 0 THEN filled - 1 ELSE filled,
                         !.lastRefill = clock]]

\* the rows the slot generation left in the table: one per instant
InitSlots ==
    [s \in SlotIds |-> [date |-> s \div TicksPerDay, startTime |-> s % TicksPerDay,
                        owner |-> NoUser, notified |-> FALSE]]

\* a process that has just started: no request, no timer, the clock at 0
InitProcess ==
    /\ now = 0
    /\ pc = [t \in Callers |-> "idle"]
    /\ arg = [t \in Callers |-> 0]
    /\ snap = [t \in Callers |-> NoSnap]
    /\ ev = NoEv
    /\ timers = [s \in SlotIds |-> NoTimer]
    /\ tm = [i \in TimerIds |-> FreeTimer]
    /\ stopped = FALSE
    /\ restarts = 0
    /\ sent = [s \in SlotIds |-> 0]
    /\ afterCancel = [s \in SlotIds |-> FALSE]

\* the callers have registered (StartHandler asks an unregistered chat for its
\* contact first); SQLiteStorage.migrate has run PRAGMA foreign_keys=ON
InitUsers ==
    /\ users = Callers
    /\ foreignKeys = TRUE

\* a rate limiter that is not called, and no table of database.go
InitBucketIdle ==
    /\ tb = NewTokenBucket(MaxCapacity, 1, 0)
    /\ tbClock = 0
    /\ tbAllowed = 0
    /\ book = <<>>

Init ==
    /\ slots = InitSlots
    /\ won = [s \in SlotIds |-> {}]
    /\ InitProcess
    /\ InitBucketIdle
    /\ InitUsers

\* ---- SQLiteStorage ---------------------------------------------------------
\* faulty variants of the statements below, which the properties must tell apart:
\* an UPDATE without "AND user_chat_id IS NULL"
ReserveSlotAnyOwner(tbl, slotID, chatID) ==
    IF slotID \in DOMAIN tbl
    THEN [err |-> "nil", tbl |-> [tbl EXCEPT ![slotID].owner = chatID]]
    ELSE [err |-> "unavailable", tbl |-> tbl]

\* an UPDATE that takes the slot from its owner when the caller asks again
ReserveSlotOverwrite(tbl, slotID, chatID) ==
    IF slotID \in DOMAIN tbl /\ tbl[slotID].owner # NoUser
    THEN [err |-> "unavailable", tbl |-> [tbl EXCEPT ![slotID].owner = chatID]]
    ELSE IF slotID \in DOMAIN tbl
         THEN [err |-> "nil", tbl |-> [tbl EXCEPT ![slotID].owner = chatID]]
         ELSE [err |-> "unavailable", tbl |-> tbl]

\* a cancel that leaves notified as it was
CancelSlotKeepNotified(tbl, slotID, chatID) ==
    IF slotID \in DOMAIN tbl /\ tbl[slotID].owner = chatID
    THEN [err |-> "nil", tbl |-> [tbl EXCEPT ![slotID].owner = NoUser]]
    ELSE [err |-> "notowner", tbl |-> tbl]

\* a cancel without "AND user_chat_id = ?"
CancelSlotAnyOwner(tbl, slotID, chatID) ==
    IF slotID \in DOMAIN tbl /\ tbl[slotID].owner # NoUser
    THEN [err |-> "nil",
          tbl |-> [tbl EXCEPT ![slotID].owner = NoUser, ![slotID].notified = FALSE]]
    ELSE [err |-> "notowner", tbl |-> tbl]

\* a cancel that resets notified and leaves the owner
CancelSlotKeepOwner(tbl, slotID, chatID) ==
    IF slotID \in DOMAIN tbl /\ tbl[slotID].owner = chatID
    THEN [err |-> "nil", tbl |-> [tbl EXCEPT ![slotID].notified = FALSE]]
    ELSE [err |-> "notowner", tbl |-> tbl]

\* faulty variant: a slots table without UNIQUE(date, start_time)
CreateSlotNoConstraint(tbl, date, startTime) ==
    [err |-> "nil",
     tbl |-> Append(tbl, [date |-> date, startTime |-> startTime,
                          owner |-> NoUser, notified |-> FALSE])]

\* INSERT INTO slots (date, start_time, end_time, user_chat_id, notified): the
\* row gets the next id; UNIQUE(date, start_time) of the schema makes the
\* INSERT fail when a row of that date and start time exists
CreateSlot(tbl, date, startTime) ==
    IF \E id \in DOMAIN tbl : tbl[id].date = date /\ tbl[id].startTime = startTime
    THEN [err |-> "unique", tbl |-> tbl]
    ELSE [err |-> "nil",
          tbl |-> Append(tbl, [date |-> date, startTime |-> startTime,
                               owner |-> NoUser, notified |-> FALSE])]

\* UPDATE slots SET user_chat_id = ? WHERE id = ? AND user_chat_id IS NULL;
\* no row affected is the error "slot is not available or does not exist"
ReserveSlot(tbl, slotID, chatID) ==
    IF slotID \in DOMAIN tbl /\ tbl[slotID].owner = NoUser
    THEN [err |-> "nil", tbl |-> [tbl EXCEPT ![slotID].owner = chatID]]
    ELSE [err |-> "unavailable", tbl |-> tbl]

\* FOREIGN KEY(user_chat_id) REFERENCES users(chat_id): SQLite checks it on a
\* connection whose PRAGMA foreign_keys is ON and on no other
ForeignKeyOk(reg, fk, chatID) == ~fk \/ chatID \in reg

\* SQLiteStorage.ReserveSlot on the connection of the pool: the UPDATE, which
\* fails as a whole when the row it would write breaks the foreign key
ReserveSlotFK(tbl, reg, fk, slotID, chatID) ==
    IF ReserveSlot(tbl, slotID, chatID).err = "nil" /\ ~ForeignKeyOk(reg, fk, chatID)
    THEN [err |-> "constraint", tbl |-> tbl]
    ELSE ReserveSlot(tbl, slotID, chatID)

\* INSERT OR REPLACE INTO users (chat_id, ...): with a row of that chat_id in
\* the table, REPLACE deletes the row before it inserts the new one, and the
\* delete runs ON DELETE SET NULL on the slots of that chat
SaveUser(tbl, reg, fk, chatID) ==
    [users |-> reg \cup {chatID},
     tbl |-> IF fk /\ chatID \in reg
             THEN [id \in DOMAIN tbl |->
                     IF tbl[id].owner = chatID THEN [tbl[id] EXCEPT !.owner = NoUser]
                     ELSE tbl[id]]
             ELSE tbl]

\* UPDATE slots SET user_chat_id = NULL, notified = 0 WHERE id = ? AND user_chat_id = ?;
\* no row affected is the error "slot not found or not belongs to user"
CancelSlot(tbl, slotID, chatID) ==
    IF slotID \in DOMAIN tbl /\ tbl[slotID].owner = chatID
    THEN [err |-> "nil",
          tbl |-> [tbl EXCEPT ![slotID].owner = NoUser, ![slotID].notified = FALSE]]
    ELSE [err |-> "notowner", tbl |-> tbl]

\* UPDATE slots SET notified = 1 WHERE id = ?
MarkSlotNotified(tbl, slotID) ==
    IF slotID \in DOMAIN tbl THEN [tbl EXCEPT ![slotID].notified = TRUE] ELSE tbl

\* SELECT ... FROM slots WHERE id = ?; sql.ErrNoRows is "slot not found"
GetSlotByID(tbl, id) ==
    IF id \in DOMAIN tbl
    THEN [err |-> "nil",
          slot |-> [slot |-> id, date |-> tbl[id].date, startTime |-> tbl[id].startTime,
                    chat |-> tbl[id].owner]]
    ELSE [err |-> "notfound", slot |-> NoSnap]

\* SELECT ... FROM slots WHERE date = ? AND user_chat_id IS NULL ORDER BY
\* start_time: the ids of the rows, which no clause and no code after the query
\* compares with the time of day
GetAvailableSlots(tbl, date) ==
    {id \in DOMAIN tbl : tbl[id].date = date /\ tbl[id].owner = NoUser}

\* SELECT ... FROM slots WHERE user_chat_id IS NOT NULL AND notified = 0
GetPendingNotifications(tbl) ==
    {s \in DOMAIN tbl : tbl[s].owner # NoUser /\ ~tbl[s].notified}

\* ---- MemoryScheduler -------------------------------------------------------
\* A scheduler state is [timers, tm, stopped]. A timer is "armed" until the
\* runtime fires it; its callback then runs handleNotification in a goroutine
\* of its own, at "check" (reads s.stopped), "del" (takes the lock and deletes
\* the map entry) and "send" (calls sender.SendSlotReminder) in turn.
NewMemoryScheduler ==
    [timers |-> [s \in SlotIds |-> NoTimer], tm |-> [i \in TimerIds |-> FreeTimer],
     stopped |-> FALSE]

\* time.Timer.Stop: an armed timer never fires; a timer whose callback has been
\* started is not affected (Stop returns false and the goroutine runs on)
StopTimer(t, by) ==
    IF t.st = "armed" THEN FreeTimer ELSE [t EXCEPT !.removedBy = by]

StopIn(tbl, id, by) ==
    IF id = NoTimer THEN tbl ELSE [tbl EXCEPT ![id] = StopTimer(tbl[id], by)]

\* for slotID, timer := range s.timers { timer.Stop(); delete(s.timers, slotID) }
StopAll(sch, by) ==
    [sch EXCEPT
       !.tm = [i \in TimerIds |->
                 IF \E s \in SlotIds : sch.timers[s] = i
                 THEN StopTimer(sch.tm[i], by) ELSE sch.tm[i]],
       !.timers = [s \in SlotIds |-> NoTimer]]

FreeIds(tbl) == {i \in TimerIds : tbl[i].st = "free"}
NewId(tbl) == CHOOSE i \in FreeIds(tbl) : \A j \in FreeIds(tbl) : i <= j

\* faulty variants. Schedule that installs the new timer without stopping and
\* removing the one registered before:
ScheduleKeepOld(sch, slot, notifyAt, clock) ==
    IF sch.stopped THEN [err |-> "stopped", sch |-> sch]
    ELSE LET id == IF FreeIds(sch.tm) = {} THEN 1 ELSE NewId(sch.tm)
             due == notifyAt <= clock
             fresh == [st |-> IF due THEN "check" ELSE "armed", slot |-> slot.slot,
                       chat |-> slot.chat, at |-> notifyAt, removedBy |-> "none"]
         IN [err |-> "nil",
             sch |-> [timers |-> [sch.timers EXCEPT ![slot.slot] = IF due THEN NoTimer ELSE id],
                      tm |-> [sch.tm EXCEPT ![id] = fresh],
                      stopped |-> FALSE]]

\* Cancel that stops every timer, whatever its slot
CancelAll(sch, slotID) == StopAll(sch, "Cancel")

\* Schedule that starts nothing for a fire time that has passed
ScheduleSkipsPastDue(sch, slot, notifyAt, clock) ==
    IF sch.stopped THEN [err |-> "stopped", sch |-> sch]
    ELSE LET tm1 == StopIn(sch.tm, sch.timers[slot.slot], "Schedule")
             id == NewId(tm1)
             due == notifyAt <= clock
             fresh == [st |-> "armed", slot |-> slot.slot,
                       chat |-> slot.chat, at |-> notifyAt, removedBy |-> "none"]
         IN [err |-> "nil",
             sch |-> [timers |-> [sch.timers EXCEPT ![slot.slot] = IF due THEN NoTimer ELSE id],
                      tm |-> IF due THEN tm1 ELSE [tm1 EXCEPT ![id] = fresh],
                      stopped |-> FALSE]]

\* faulty variant: handleNotification keeps s.mu until the sender has returned
MuHeldAtSend(st) == st = "send"

\* s.mu: Schedule, Cancel, ReschedulePending and Stop hold it from entry to
\* return, handleNotification around its delete and nowhere else. Each of these
\* sections is one step, so a goroutine waiting at "check", "del" or "send"
\* is outside of it.
MuHeldAt(st) == FALSE
MuFree(tbl) == \A i \in TimerIds : ~MuHeldAt(tbl[i].st)

\* faulty variant: Schedule that does not look at s.stopped
ScheduleAfterStop(sch, slot, notifyAt, clock) ==
    LET tm1 == StopIn(sch.tm, sch.timers[slot.slot], "Schedule")
        id == IF FreeIds(tm1) = {} THEN 1 ELSE NewId(tm1)
        due == notifyAt <= clock
        fresh == [st |-> IF due THEN "check" ELSE "armed", slot |-> slot.slot,
                  chat |-> slot.chat, at |-> notifyAt, removedBy |-> "none"]
    IN IF FreeIds(tm1) = {} THEN [err |-> "stopped", sch |-> sch]
       ELSE [err |-> "nil",
             sch |-> [timers |-> [sch.timers EXCEPT ![slot.slot] = IF due THEN NoTimer ELSE id],
                      tm |-> [tm1 EXCEPT ![id] = fresh],
                      stopped |-> sch.stopped]]

\* the model keeps at most MaxTimers timers and goroutines alive at once
CanSchedule(sch, slot) ==
    sch.stopped \/ FreeIds(StopIn(sch.tm, sch.timers[slot.slot], "Schedule")) # {}

Schedule(sch, slot, notifyAt, clock) ==
    IF sch.stopped THEN [err |-> "stopped", sch |-> sch]
    ELSE LET tm1 == StopIn(sch.tm, sch.timers[slot.slot], "Schedule")
             id == NewId(tm1)
             due == notifyAt <= clock     \* delay := time.Until(notifyAt); delay <= 0
             fresh == [st |-> IF due THEN "check" ELSE "armed", slot |-> slot.slot,
                       chat |-> slot.chat, at |-> notifyAt, removedBy |-> "none"]
         IN [err |-> "nil",
             sch |-> [timers |-> [sch.timers EXCEPT ![slot.slot] = IF due THEN NoTimer ELSE id],
                      tm |-> [tm1 EXCEPT ![id] = fresh],
                      stopped |-> FALSE]]

\* faulty variant: Schedule that takes a nil slot for nothing to do
ScheduleNilIgnored(sch) == [err |-> "nil", sch |-> sch]

\* Schedule(ctx, nil, notifyAt): "scheduler is stopped" when stopped; else
\* s.timers[slot.ID] dereferences the nil slot and panics before the map is
\* read or written, and the deferred s.mu.Unlock() runs while the panic unwinds
ScheduleNil(sch) == [err |-> IF sch.stopped THEN "stopped" ELSE "panic", sch |-> sch]

Cancel(sch, slotID) ==
    IF slotID \in SlotIds /\ sch.timers[slotID] # NoTimer
    THEN [sch EXCEPT !.tm = StopIn(sch.tm, sch.timers[slotID], "Cancel"),
                     !.timers[slotID] = NoTimer]
    ELSE sch

ReschedulePending(sch) == StopAll(sch, "ReschedulePending")

\* stopOnce.Do: the first call sets stopped and stops every timer; later calls
\* do nothing
Stop(sch) ==
    IF sch.stopped THEN sch ELSE [StopAll(sch, "Stop") EXCEPT !.stopped = TRUE]

\* Timer ids only tell timers apart: the live ones are kept numbered 1, 2, ...
\* in the order they were created.
Live(tbl) == {i \in TimerIds : tbl[i].st # "free"}
Rank(tbl, i) == Cardinality({j \in Live(tbl) : j <= i})
Compact(sch) ==
    [timers |-> [s \in SlotIds |->
                   IF sch.timers[s] = NoTimer THEN NoTimer ELSE Rank(sch.tm, sch.timers[s])],
     tm |-> [k \in TimerIds |->
               IF k <= Cardinality(Live(sch.tm))
               THEN sch.tm[CHOOSE i \in Live(sch.tm) : Rank(sch.tm, i) = k]
               ELSE FreeTimer],
     stopped |-> sch.stopped]

Sch == [timers |-> timers, tm |-> tm, stopped |-> stopped]
SetSch(s) ==
    /\ timers' = Compact(s).timers
    /\ tm' = Compact(s).tm
    /\ stopped' = s.stopped

\* ---- Service.ReserveSlot -----------------------------------------------------
\* faulty variants: the error of storage.ReserveSlot is not checked
AfterReserveUnchecked(err) == "get"

\* the fire time is taken from the start time alone
NotifyAtTimeOnly(slot) == ParseSlotTime(0, slot.startTime)

\* err := s.storage.ReserveSlot(...); if err != nil { return err }
AfterReserve(err) == IF err # "nil" THEN "idle" ELSE "get"

\* slot, err := s.storage.GetSlotByID(...); if err != nil { return err }
AfterGet(err) == IF err # "nil" THEN "idle" ELSE "sched"

\* notifyAt of Service.ReserveSlot: the slot's date and start time
NotifyAt(slot) == ParseSlotTime(slot.date, slot.startTime)

\* faulty variant: the error of scheduler.Schedule is returned to the caller
AfterScheduleReturned(err) == err

\* if err := s.scheduler.Schedule(...); err != nil { log.Printf(...) }; return nil
AfterSchedule(err) == "nil"

\* history of a storage.ReserveSlot call on slot s by chat u that returned err
Reserved(s, u, err) ==
    IF err = "nil"
    THEN /\ won' = [won EXCEPT ![s] = @ \cup {u}]
         /\ sent' = [sent EXCEPT ![s] = 0]
         /\ afterCancel' = [afterCancel EXCEPT ![s] = FALSE]
    ELSE UNCHANGED <<won, sent, afterCancel>>

\* Caller t enters Service.ReserveSlot(ctx, s, t) and the storage runs its
\* UPDATE; dbFail is a failure of ExecContext.
SvcReserve(t, s, dbFail) ==
    /\ pc[t] = "idle"
    /\ LET r == IF dbFail THEN [err |-> "dberr", tbl |-> slots]
                ELSE ReserveSlotFK(slots, users, foreignKeys, s, t)
       IN /\ slots' = r.tbl
          /\ pc' = [pc EXCEPT ![t] = AfterReserve(r.err)]
          /\ arg' = [arg EXCEPT ![t] = IF AfterReserve(r.err) = "idle" THEN 0 ELSE s]
          /\ ev' = IF AfterReserve(r.err) = "idle" THEN Returned("ReserveSlot", r.err) ELSE NoEv
          /\ Reserved(s, t, r.err)
    /\ UNCHANGED <<book, tb, tbClock, tbAllowed, users, foreignKeys, now, snap, timers, tm, stopped, restarts>>

SvcGet(t, dbFail) ==
    /\ pc[t] = "get"
    /\ LET r == IF dbFail THEN [err |-> "dberr", slot |-> NoSnap]
                ELSE GetSlotByID(slots, arg[t])
       IN /\ pc' = [pc EXCEPT ![t] = AfterGet(r.err)]
          /\ snap' = [snap EXCEPT ![t] = r.slot]
          /\ arg' = [arg EXCEPT ![t] = IF AfterGet(r.err) = "idle" THEN 0 ELSE @]
          /\ ev' = IF AfterGet(r.err) = "idle" THEN Returned("ReserveSlot", r.err) ELSE NoEv
    /\ UNCHANGED <<book, tb, tbClock, tbAllowed, users, foreignKeys, slots, now, timers, tm, stopped, restarts, won, sent, afterCancel>>

\* s.scheduler.Schedule(ctx, slot, notifyAt): its error is logged only
SvcSchedule(t) ==
    /\ MuFree(tm)
    /\ pc[t] = "sched"
    /\ CanSchedule(Sch, snap[t])
    /\ SetSch(Schedule(Sch, snap[t], NotifyAt(snap[t]), now).sch)
    /\ pc' = [pc EXCEPT ![t] = "idle"]
    /\ snap' = [snap EXCEPT ![t] = NoSnap]
    /\ ev' = Returned("ReserveSlot",
                      AfterSchedule(Schedule(Sch, snap[t], NotifyAt(snap[t]), now).err))
    /\ arg' = [arg EXCEPT ![t] = 0]
    /\ UNCHANGED <<book, tb, tbClock, tbAllowed, users, foreignKeys, slots, now, restarts, won, sent, afterCancel>>

\* CallbackHandler.handleSlotSelection: what the user is told for the error that
\* Service.ReserveSlot returned. Any error is answered "Этот слот уже занят".
SlotSelectionAnswer(err) == IF err # "nil" THEN "taken" ELSE "booked"

\* ---- Service.GenerateSlotsForDate ------------------------------------------------
\* Caller t enters GenerateSlotsForDate(ctx, date): current is the work start
GenStart(t, date) ==
    /\ pc[t] = "idle"
    /\ pc' = [pc EXCEPT ![t] = "gen"]
    /\ snap' = [snap EXCEPT ![t] = [slot |-> 0, date |-> date, startTime |-> 0,
                                    chat |-> NoUser]]
    /\ ev' = NoEv
    /\ UNCHANGED <<book, tb, tbClock, tbAllowed, users, foreignKeys, slots, now, arg, timers, tm, stopped, restarts, won, sent, afterCancel>>

\* one turn of the loop: s.storage.CreateSlot for the current start time, its
\* error is logged only; current = current.Add(duration)
GenCreate(t) ==
    /\ pc[t] = "gen"
    /\ snap[t].startTime < TicksPerDay
    /\ slots' = CreateSlot(slots, snap[t].date, snap[t].startTime).tbl
    /\ snap' = [snap EXCEPT ![t].startTime = @ + 1]
    /\ ev' = Returned("CreateSlot", CreateSlot(slots, snap[t].date, snap[t].startTime).err)
    /\ UNCHANGED <<book, tb, tbClock, tbAllowed, users, foreignKeys, now, pc, arg, timers, tm, stopped, restarts, won, sent, afterCancel>>

\* the loop has passed the work end: return nil
GenReturn(t) ==
    /\ pc[t] = "gen"
    /\ snap[t].startTime >= TicksPerDay
    /\ pc' = [pc EXCEPT ![t] = "idle"]
    /\ snap' = [snap EXCEPT ![t] = NoSnap]
    /\ ev' = Returned("GenerateSlotsForDate", "nil")
    /\ UNCHANGED <<book, tb, tbClock, tbAllowed, users, foreignKeys, slots, now, arg, timers, tm, stopped, restarts, won, sent, afterCancel>>

\* ---- the storage and the scheduler called directly ---------------------------
\* storage.ReserveSlot called on its own, as the storage tests do
StoreReserve(s, u) ==
    /\ LET r == ReserveSlotFK(slots, users, foreignKeys, s, u)
       IN /\ slots' = r.tbl
          /\ ev' = Returned(IF r.err = "nil" /\ afterCancel[s] THEN "ReserveSlotAgain"
                            ELSE "ReserveSlot", r.err)
          /\ Reserved(s, u, r.err)
    /\ UNCHANGED <<book, tb, tbClock, tbAllowed, users, foreignKeys, now, pc, arg, snap, timers, tm, stopped, restarts>>

StoreCancel(s, u) ==
    /\ LET r == CancelSlot(slots, s, u)
       IN /\ slots' = r.tbl
          /\ IF r.err = "nil"
             THEN /\ won' = [won EXCEPT ![s] = {}]
                  /\ sent' = [sent EXCEPT ![s] = 0]
                  /\ afterCancel' = [afterCancel EXCEPT ![s] = TRUE]
             ELSE UNCHANGED <<won, sent, afterCancel>>
          /\ ev' = Returned("CancelSlot", r.err)
    /\ UNCHANGED <<book, tb, tbClock, tbAllowed, users, foreignKeys, now, pc, arg, snap, timers, tm, stopped, restarts>>

\* storage.SaveUser, which ContactHandler calls when a chat shares its contact
UserSave(u) ==
    /\ users' = SaveUser(slots, users, foreignKeys, u).users
    /\ slots' = SaveUser(slots, users, foreignKeys, u).tbl
    /\ won' = [s \in SlotIds |-> IF slots'[s].owner = NoUser THEN {} ELSE won[s]]
    /\ sent' = [s \in SlotIds |-> IF slots'[s].owner = NoUser THEN 0 ELSE sent[s]]
    /\ ev' = Returned("SaveUser", "nil")
    /\ UNCHANGED <<book, tb, tbClock, tbAllowed, foreignKeys, now, pc, arg, snap, timers, tm, stopped, restarts, afterCancel>>

\* db.SetMaxOpenConns(1) and db.SetConnMaxLifetime(time.Hour): the pool closes
\* its connection after an hour and opens another one for the next statement.
\* PRAGMA foreign_keys=ON was run once, by migrate, on the first connection;
\* the data source name sets no pragma, and a new connection starts with OFF.
ConnRecycle ==
    /\ foreignKeys
    /\ foreignKeys' = FALSE
    /\ ev' = NoEv
    /\ UNCHANGED <<book, tb, tbClock, tbAllowed, users, slots, now, pc, arg, snap, timers, tm, stopped, restarts, won, sent,
                   afterCancel>>

StoreMarkNotified(s) ==
    /\ slots' = MarkSlotNotified(slots, s)
    /\ ev' = NoEv
    /\ UNCHANGED <<book, tb, tbClock, tbAllowed, users, foreignKeys, now, pc, arg, snap, timers, tm, stopped, restarts, won, sent,
                   afterCancel>>

\* Schedule for the slot as GetSlotByID returns it, at any time (the unit tests
\* re-schedule a slot for a later time)
SchedSchedule(s, at) ==
    /\ MuFree(tm)
    /\ s \in DOMAIN slots
    /\ CanSchedule(Sch, GetSlotByID(slots, s).slot)
    /\ SetSch(Schedule(Sch, GetSlotByID(slots, s).slot, at, now).sch)
    /\ ev' = Returned("Schedule", Schedule(Sch, GetSlotByID(slots, s).slot, at, now).err)
    /\ UNCHANGED <<book, tb, tbClock, tbAllowed, users, foreignKeys, slots, now, pc, arg, snap, restarts, won, sent, afterCancel>>

\* Schedule called with a nil slot by a caller that recovers from the panic
SchedScheduleNil ==
    /\ MuFree(tm)
    /\ SetSch(ScheduleNil(Sch).sch)
    /\ ev' = Returned("ScheduleNil", ScheduleNil(Sch).err)
    /\ UNCHANGED <<book, tb, tbClock, tbAllowed, users, foreignKeys, slots, now, pc, arg, snap, restarts, won, sent, afterCancel>>

\* Cancel returns nil whether or not it found a timer
SchedCancel(s) ==
    /\ MuFree(tm)
    /\ SetSch(Cancel(Sch, s))
    /\ ev' = Returned(IF timers[s] = NoTimer THEN "CancelNoTimer" ELSE "Cancel", "nil")
    /\ UNCHANGED <<book, tb, tbClock, tbAllowed, users, foreignKeys, slots, now, pc, arg, snap, restarts, won, sent, afterCancel>>

SchedReschedulePending ==
    /\ MuFree(tm)
    /\ SetSch(ReschedulePending(Sch))
    /\ ev' = NoEv
    /\ UNCHANGED <<book, tb, tbClock, tbAllowed, users, foreignKeys, slots, now, pc, arg, snap, restarts, won, sent, afterCancel>>

\* faulty variant: a later Stop reports that the scheduler is stopped already
SchedStopAgainFails ==
    /\ MuFree(tm)
    /\ SetSch(Stop(Sch))
    /\ ev' = Returned(IF stopped THEN "StopAgain" ELSE "Stop",
                      IF stopped THEN "stopped" ELSE "nil")
    /\ UNCHANGED <<book, tb, tbClock, tbAllowed, users, foreignKeys, slots, now, pc, arg, snap, restarts, won, sent, afterCancel>>

\* Stop returns nil, the first time and every later time
SchedStop ==
    /\ MuFree(tm)
    /\ SetSch(Stop(Sch))
    /\ ev' = Returned(IF stopped THEN "StopAgain" ELSE "Stop", "nil")
    /\ UNCHANGED <<book, tb, tbClock, tbAllowed, users, foreignKeys, slots, now, pc, arg, snap, restarts, won, sent, afterCancel>>

\* ---- timers and handleNotification ---------------------------------------------
Tick ==
    /\ now < MaxTime
    /\ now' = now + 1
    /\ ev' = NoEv
    /\ UNCHANGED <<book, tb, tbClock, tbAllowed, users, foreignKeys, slots, pc, arg, snap, timers, tm, stopped, restarts, won, sent,
                   afterCancel>>

\* the runtime starts the callback of a timer at or after its time
Fire(i) ==
    /\ tm[i].st = "armed"
    /\ tm[i].at <= now
    /\ tm' = [tm EXCEPT ![i].st = "check"]
    /\ ev' = NoEv
    /\ UNCHANGED <<book, tb, tbClock, tbAllowed, users, foreignKeys, slots, now, pc, arg, snap, timers, stopped, restarts, won, sent,
                   afterCancel>>

\* if s.stopped { return }
HnCheck(i) ==
    /\ tm[i].st = "check"
    /\ SetSch([Sch EXCEPT !.tm[i] = IF stopped THEN FreeTimer ELSE [tm[i] EXCEPT !.st = "del"]])
    /\ ev' = NoEv
    /\ UNCHANGED <<book, tb, tbClock, tbAllowed, users, foreignKeys, slots, now, pc, arg, snap, restarts, won, sent, afterCancel>>

\* faulty variant: the callback goes on to the sender and leaves the map entry
HnDeleteSkipped(i) ==
    /\ MuFree(tm)
    /\ tm[i].st = "del"
    /\ tm' = [tm EXCEPT ![i].st = "send"]
    /\ ev' = NoEv
    /\ UNCHANGED <<book, tb, tbClock, tbAllowed, users, foreignKeys, slots, now, pc, arg, snap, timers, stopped, restarts, won, sent,
                   afterCancel>>

\* s.mu.Lock(); delete(s.timers, slot.ID); s.mu.Unlock()
HnDelete(i) ==
    /\ MuFree(tm)
    /\ tm[i].st = "del"
    /\ timers' = [timers EXCEPT ![tm[i].slot] = NoTimer]
    /\ tm' = [tm EXCEPT ![i].st = "send"]
    /\ ev' = NoEv
    /\ UNCHANGED <<book, tb, tbClock, tbAllowed, users, foreignKeys, slots, now, pc, arg, snap, stopped, restarts, won, sent, afterCancel>>

\* TelegramNotificationSender.SendSlotReminder: an error for a slot without a
\* user, else a message to *slot.UserChatID, which the transport may fail
SendSlotReminder(slot, sendOk) ==
    IF slot.chat = NoUser THEN "nouser" ELSE IF sendOk THEN "nil" ELSE "failed"

Bump(n) == IF n < MaxSent THEN n + 1 ELSE MaxSent

\* faulty variant: a failed send is tried again
HnSendRetry(i, sendOk) ==
    /\ tm[i].st = "send"
    /\ sent' = IF /\ SendSlotReminder(tm[i], sendOk) = "nil"
                  /\ slots[tm[i].slot].owner = tm[i].chat
               THEN [sent EXCEPT ![tm[i].slot] = Bump(sent[tm[i].slot])]
               ELSE sent
    /\ ev' = Returned("SendSlotReminder", SendSlotReminder(tm[i], sendOk))
    /\ SetSch([Sch EXCEPT !.tm[i] = IF SendSlotReminder(tm[i], sendOk) = "nil"
                                    THEN FreeTimer ELSE tm[i]])
    /\ UNCHANGED <<book, tb, tbClock, tbAllowed, users, foreignKeys, slots, now, pc, arg, snap, restarts, won, afterCancel>>

\* s.sender.SendSlotReminder(s.ctx, slot); the error is dropped
HnSend(i, sendOk) ==
    /\ tm[i].st = "send"
    /\ sent' = IF /\ SendSlotReminder(tm[i], sendOk) = "nil"
                  /\ slots[tm[i].slot].owner = tm[i].chat
               THEN [sent EXCEPT ![tm[i].slot] = Bump(sent[tm[i].slot])]
               ELSE sent
    /\ ev' = Returned("SendSlotReminder", SendSlotReminder(tm[i], sendOk))
    /\ SetSch([Sch EXCEPT !.tm[i] = FreeTimer])
    /\ UNCHANGED <<book, tb, tbClock, tbAllowed, users, foreignKeys, slots, now, pc, arg, snap, restarts, won, afterCancel>>

\* ---- database.go: BookTimeSlot ------------------------------------------------------
\* the table of InitDB has no UNIQUE constraint on start_time
BookTimes == 1..NSlots

\* the rows GenerateSlots inserted: one without a user for each start time
InitBook == [id \in BookTimes |-> [startTime |-> id, user |-> NoUser]]

\* SELECT ... WHERE user_id = ? AND start_time > ? (time.Now()) LIMIT 1
GetUserActiveSlot(tbl, userID, clock) ==
    {id \in DOMAIN tbl : tbl[id].user = userID /\ tbl[id].startTime > clock}

\* UPDATE slots SET user_id = ? WHERE start_time = ? AND user_id IS NULL
BookUpdateRows(tbl, slotTime) ==
    {id \in DOMAIN tbl : tbl[id].startTime = slotTime /\ tbl[id].user = NoUser}

\* Goroutine t enters BookTimeSlot(db, slotTime, userID, ...) and runs
\* GetUserActiveSlot: a row ends the call with an error
BookCheck(t, slotTime, userID) ==
    /\ pc[t] = "idle"
    /\ Len(book) < MaxRows
    /\ IF GetUserActiveSlot(book, userID, now) # {}
       THEN /\ ev' = Returned("BookTimeSlot", "hasactive")
            /\ UNCHANGED <<pc, snap>>
       ELSE /\ ev' = NoEv
            /\ pc' = [pc EXCEPT ![t] = "bookupdate"]
            /\ snap' = [snap EXCEPT ![t] = [slot |-> 0, date |-> 0,
                                            startTime |-> slotTime, chat |-> userID]]
    /\ UNCHANGED <<book, slots, now, arg, timers, tm, stopped, restarts, won, sent,
                   afterCancel, users, foreignKeys, tb, tbClock, tbAllowed>>

\* the UPDATE of the rows of the start time that have no user; a row affected
\* ends the call with nil
BookUpdate(t) ==
    /\ pc[t] = "bookupdate"
    /\ book' = [id \in DOMAIN book |->
                  IF id \in BookUpdateRows(book, snap[t].startTime)
                  THEN [book[id] EXCEPT !.user = snap[t].chat] ELSE book[id]]
    /\ IF BookUpdateRows(book, snap[t].startTime) # {}
       THEN /\ ev' = Returned("BookTimeSlot", "nil")
            /\ pc' = [pc EXCEPT ![t] = "idle"]
            /\ snap' = [snap EXCEPT ![t] = NoSnap]
       ELSE /\ ev' = NoEv
            /\ pc' = [pc EXCEPT ![t] = "bookinsert"]
            /\ UNCHANGED snap
    /\ UNCHANGED <<slots, now, arg, timers, tm, stopped, restarts, won, sent,
                   afterCancel, users, foreignKeys, tb, tbClock, tbAllowed>>

\* INSERT INTO slots (start_time, end_time, user_id, username): nothing in the
\* schema refuses the row, the call returns nil
BookInsert(t) ==
    /\ pc[t] = "bookinsert"
    /\ book' = Append(book, [startTime |-> snap[t].startTime, user |-> snap[t].chat])
    /\ ev' = Returned("BookTimeSlotNew", "nil")
    /\ pc' = [pc EXCEPT ![t] = "idle"]
    /\ snap' = [snap EXCEPT ![t] = NoSnap]
    /\ UNCHANGED <<slots, now, arg, timers, tm, stopped, restarts, won, sent,
                   afterCancel, users, foreignKeys, tb, tbClock, tbAllowed>>

\* ---- the rate limiter -------------------------------------------------------------
\* the most Allow calls the history counts
MaxAllowed == MaxCapacity + MaxRate * (MaxBucketClock \div TicksPerSecond) + 1

\* a caller runs tb.Allow(); the method holds tb.mu from entry to return, so
\* the calls of concurrent callers are steps one after another
AllowStep ==
    /\ tb' = Allow(tb, tbClock).tb
    /\ tbAllowed' = IF Allow(tb, tbClock).ok THEN Min(tbAllowed + 1, MaxAllowed)
                    ELSE tbAllowed
    /\ ev' = Returned("Allow", IF Allow(tb, tbClock).ok THEN "allowed" ELSE "denied")
    /\ UNCHANGED tbClock
    /\ UNCHANGED appVars

\* half a second passes
BucketTick ==
    /\ tbClock < MaxBucketClock
    /\ tbClock' = tbClock + 1
    /\ ev' = NoEv
    /\ UNCHANGED <<book, tb, tbAllowed>>
    /\ UNCHANGED appVars

\* half a second passes, without end: Allow reads the clock only as the time
\* since lastRefill, which is kept, up to MaxBucketClock, when the clock is
\* held at MaxBucketClock
BucketTickOn ==
    /\ tbClock' = Min(tbClock + 1, MaxBucketClock)
    /\ tb' = IF tbClock < MaxBucketClock THEN tb
             ELSE [tb EXCEPT !.lastRefill = IF @ > 0 THEN @ - 1 ELSE 0]
    /\ ev' = NoEv
    /\ UNCHANGED tbAllowed
    /\ UNCHANGED appVars

\* ---- process restart ---------------------------------------------------------
\* Service.ReschedulePendingNotifications is scheduler.ReschedulePending and
\* nothing else: the storage is not read
ReschedulePendingNotifications(sch, tbl) == ReschedulePending(sch)

\* The process is stopped between two requests and started again: timers and
\* goroutines are gone, the table stays. main builds a new MemoryScheduler and
\* calls ReschedulePendingNotifications before it serves requests.
Restart ==
    /\ restarts < MaxRestarts
    /\ \A t \in Callers : pc[t] = "idle"
    /\ restarts' = restarts + 1
    /\ SetSch(ReschedulePendingNotifications(NewMemoryScheduler, slots))
    /\ ev' = NoEv
    /\ foreignKeys' = TRUE
    /\ UNCHANGED <<book, tb, tbClock, tbAllowed, users, slots, now, pc, arg, snap, won, sent, afterCancel>>

\* ---- specifications ------------------------------------------------------------
\* Spec: callers reserve slots through the Service while timers run; the
\* database and the transport may fail.
Next ==
    \/ \E t \in Callers, s \in SlotIds, dbFail \in BOOLEAN : SvcReserve(t, s, dbFail)
    \/ \E t \in Callers, dbFail \in BOOLEAN : SvcGet(t, dbFail)
    \/ \E t \in Callers : SvcSchedule(t)
    \/ Tick
    \/ \E i \in TimerIds : Fire(i)
    \/ \E i \in TimerIds : HnCheck(i)
    \/ \E i \in TimerIds : HnDelete(i)
    \/ \E i \in TimerIds, sendOk \in BOOLEAN : HnSend(i, sendOk)

Spec == Init /\ [][Next]_vars

\* SpecCancel: reservations through the Service, and owners who give their slot
\* back with storage.CancelSlot and scheduler.Cancel (two calls, as
\* TestFullSlotLifecycle makes them), with a database and a transport that do
\* not fail.
NextCancel ==
    \/ \E t \in Callers, s \in SlotIds : SvcReserve(t, s, FALSE)
    \/ \E t \in Callers : SvcGet(t, FALSE)
    \/ \E t \in Callers : SvcSchedule(t)
    \/ \E s \in SlotIds, u \in Callers : slots[s].owner = u /\ StoreCancel(s, u)
    \/ \E s \in SlotIds : SchedCancel(s)
    \/ Tick
    \/ \E i \in TimerIds : Fire(i)
    \/ \E i \in TimerIds : HnCheck(i)
    \/ \E i \in TimerIds : HnDelete(i)
    \/ \E i \in TimerIds : HnSend(i, TRUE)

SpecCancel == Init /\ [][NextCancel]_vars

\* SpecClose: Spec, and Service.Close, which stops the scheduler while requests
\* are served
NextClose ==
    \/ \E t \in Callers, s \in SlotIds, dbFail \in BOOLEAN : SvcReserve(t, s, dbFail)
    \/ \E t \in Callers, dbFail \in BOOLEAN : SvcGet(t, dbFail)
    \/ \E t \in Callers : SvcSchedule(t)
    \/ SchedStop
    \/ Tick
    \/ \E i \in TimerIds : Fire(i)
    \/ \E i \in TimerIds : HnCheck(i)
    \/ \E i \in TimerIds : HnDelete(i)
    \/ \E i \in TimerIds, sendOk \in BOOLEAN : HnSend(i, sendOk)

SpecClose == Init /\ [][NextClose]_vars

\* SpecStore: the statements of the storage, called in any order
NextStore ==
    \/ \E s \in SlotIds \cup {MissingSlot}, u \in Callers : StoreReserve(s, u)
    \/ \E s \in SlotIds \cup {MissingSlot}, u \in Callers : StoreCancel(s, u)
    \/ \E s \in SlotIds \cup {MissingSlot} : StoreMarkNotified(s)

SpecStore == Init /\ [][NextStore]_vars

\* SpecRecovery: reservations, timers and process restarts, with a storage and
\* a transport that do not fail
NextRecovery ==
    \/ \E t \in Callers, s \in SlotIds : SvcReserve(t, s, FALSE)
    \/ \E t \in Callers : SvcGet(t, FALSE)
    \/ \E t \in Callers : SvcSchedule(t)
    \/ Tick
    \/ \E i \in TimerIds : Fire(i)
    \/ \E i \in TimerIds : HnCheck(i)
    \/ \E i \in TimerIds : HnDelete(i)
    \/ \E i \in TimerIds : HnSend(i, TRUE)
    \/ Restart

SpecRecovery == Init /\ [][NextRecovery]_vars

\* SpecSched: the scheduler on its own, called for reserved slots
InitSched ==
    /\ slots = [s \in SlotIds |-> [InitSlots[s] EXCEPT !.owner = 1]]
    /\ won = [s \in SlotIds |-> {1}]
    /\ InitProcess
    /\ InitBucketIdle
    /\ InitUsers

NextSched ==
    \/ \E s \in SlotIds, at \in 0..MaxTime + 1 : SchedSchedule(s, at)
    \/ \E s \in SlotIds : SchedCancel(s)
    \/ SchedReschedulePending
    \/ SchedStop
    \/ Tick
    \/ \E i \in TimerIds : Fire(i)
    \/ \E i \in TimerIds : HnCheck(i)
    \/ \E i \in TimerIds : HnDelete(i)
    \/ \E i \in TimerIds, sendOk \in BOOLEAN : HnSend(i, sendOk)

SpecSched == InitSched /\ [][NextSched]_vars

\* SpecSchedFair: SpecSched where the Go runtime runs every goroutine that can
\* run: each step of handleNotification is taken once it is enabled
HnFair ==
    \A i \in TimerIds :
        /\ WF_vars(HnCheck(i))
        /\ WF_vars(HnDelete(i))
        /\ WF_vars(\E sendOk \in BOOLEAN : HnSend(i, sendOk))

SpecSchedFair == InitSched /\ [][NextSched]_vars /\ HnFair

\* SpecNil: the scheduler called with slots and with a nil slot
NextNil ==
    \/ SchedScheduleNil
    \/ \E s \in SlotIds, at \in 1..MaxTime + 1 : SchedSchedule(s, at)
    \/ \E s \in SlotIds : SchedCancel(s)
    \/ SchedStop
    \/ Tick
    \/ \E i \in TimerIds : Fire(i)
    \/ \E i \in TimerIds : HnCheck(i)
    \/ \E i \in TimerIds : HnDelete(i)
    \/ \E i \in TimerIds : HnSend(i, TRUE)

SpecNil == InitSched /\ [][NextNil]_vars

\* SpecBucket: a TokenBucket of any capacity and rate, called at any times
InitBucket ==
    /\ slots = InitSlots
    /\ won = [s \in SlotIds |-> {}]
    /\ InitProcess
    /\ InitUsers
    /\ \E capacity \in 1..MaxCapacity, refillRate \in 0..MaxRate :
         tb = NewTokenBucket(capacity, refillRate, 0)
    /\ tbClock = 0
    /\ tbAllowed = 0
    /\ book = <<>>

NextBucket ==
    \/ AllowStep
    \/ BucketTick

SpecBucket == InitBucket /\ [][NextBucket]_vars

\* SpecBucketFair: time passes for ever and the callers keep calling
NextBucketOn ==
    \/ AllowStep
    \/ BucketTickOn

SpecBucketFair ==
    InitBucket /\ [][NextBucketOn]_vars /\ WF_vars(AllowStep) /\ WF_vars(BucketTickOn)

\* SpecBook: goroutines book start times for users with BookTimeSlot while
\* time passes
InitBookSpec ==
    /\ slots = InitSlots
    /\ won = [s \in SlotIds |-> {}]
    /\ InitProcess
    /\ InitUsers
    /\ tb = NewTokenBucket(MaxCapacity, 1, 0)
    /\ tbClock = 0
    /\ tbAllowed = 0
    /\ book = InitBook

NextBook ==
    \/ \E t \in Callers, slotTime \in BookTimes, userID \in Callers :
          BookCheck(t, slotTime, userID)
    \/ \E t \in Callers : BookUpdate(t)
    \/ \E t \in Callers : BookInsert(t)
    \/ Tick

SpecBook == InitBookSpec /\ [][NextBook]_vars

\* SpecGen: callers generate the slots of dates, again and at the same time,
\* into a table that starts without rows
InitGen ==
    /\ slots = <<>>
    /\ won = [s \in SlotIds |-> {}]
    /\ InitProcess
    /\ InitBucketIdle
    /\ InitUsers

NextGen ==
    \/ \E t \in Callers, date \in 0..MaxDate : GenStart(t, date)
    \/ \E t \in Callers : GenCreate(t)
    \/ \E t \in Callers : GenReturn(t)

SpecGen == InitGen /\ [][NextGen]_vars

\* SpecUsers: chats register, reserve and cancel, registered or not, while the
\* pool renews its connection
InitUsersEmpty ==
    /\ slots = InitSlots
    /\ won = [s \in SlotIds |-> {}]
    /\ InitProcess
    /\ InitBucketIdle
    /\ users = {}
    /\ foreignKeys = TRUE

NextUsers ==
    \/ \E u \in Callers : UserSave(u)
    \/ \E s \in SlotIds, u \in Callers : StoreReserve(s, u)
    \/ \E s \in SlotIds, u \in Callers : StoreCancel(s, u)
    \/ ConnRecycle

SpecUsers == InitUsersEmpty /\ [][NextUsers]_vars

\* ---- MemoryScheduler: s.mu and stopOnce, one step per lock operation --------------
\* The methods of MemoryScheduler as the goroutines of the callers run them: the
\* call, the wait for s.mu (or stopOnce), the critical section up to the
\* deferred Unlock. A caller holds s.mu at "mu.held" and "once.held", reads
\* under RLock at "mu.rheld"; a callback holds it at "locked".
SchedOps == {"Start", "Schedule", "Cancel", "ReschedulePending", "Stop",
             "GetActiveTimersCount"}

Writers == {t \in Callers : pc[t] \in {"mu.held", "once.held"}}
Readers == {t \in Callers : pc[t] = "mu.rheld"}
HnHolders == {i \in TimerIds : tm[i].st = "locked"}

\* sync.RWMutex: Lock waits for the writer and the readers inside, RLock for
\* the writer inside
MuLockFree == Writers = {} /\ Readers = {} /\ HnHolders = {}
MuRLockFree == Writers = {} /\ HnHolders = {}

\* sync.Once: Do runs f under its own mutex; a second caller waits there until
\* f has returned
OnceFree == \A t \in Callers : pc[t] \notin {"once.in", "once.held"}

\* Schedule calls on their way; each of them may start one timer or goroutine
SchedulePending == {t \in Callers : pc[t] # "idle" /\ snap[t].op = "Schedule"}

\* faulty variant: Stop waits, inside its critical section, until the callbacks
\* that are running have finished
StopWaitsForCallbacks(tbl) ==
    \A i \in TimerIds : tbl[i].st \in {"free", "armed"}

\* the body of Stop waits for nothing: timer.Stop() and s.cancel() return at once
StopMayFinish(tbl) == TRUE

\* a goroutine calls a method: it is at s.mu.Lock(), s.mu.RLock() or stopOnce.Do.
\* Schedule is called for the time MaxTime: ahead of the clock before the last
\* Tick (a timer is armed), past due after it (a goroutine is started)
LkCall(t, op, s, at) ==
    /\ pc[t] = "idle"
    /\ op \in {"Schedule", "Cancel"} \/ s = 1
    /\ op = "Schedule" =>
          Cardinality(Live(tm)) + Cardinality(SchedulePending) < MaxTimers
    /\ pc' = [pc EXCEPT ![t] = IF op = "Stop" THEN "once"
                                ELSE IF op = "GetActiveTimersCount" THEN "mu.rlock"
                                ELSE "mu.lock"]
    /\ snap' = [snap EXCEPT ![t] = [op |-> op, slot |-> s, at |-> at]]
    /\ ev' = NoEv
    /\ UNCHANGED <<book, tb, tbClock, tbAllowed, users, foreignKeys, slots, now, arg,
                   timers, tm, stopped, restarts, won, sent, afterCancel>>

\* s.stopOnce.Do(...): returns at once when Stop has run, else enters f
LkOnce(t) ==
    /\ pc[t] = "once"
    /\ OnceFree
    /\ pc' = [pc EXCEPT ![t] = IF stopped THEN "idle" ELSE "once.in"]
    /\ snap' = [snap EXCEPT ![t] = IF stopped THEN NoSnap ELSE snap[t]]
    /\ ev' = IF stopped THEN Returned("StopAgain", "nil") ELSE NoEv
    /\ UNCHANGED <<book, tb, tbClock, tbAllowed, users, foreignKeys, slots, now, arg,
                   timers, tm, stopped, restarts, won, sent, afterCancel>>

\* s.mu.Lock() returns
LkAcquire(t) ==
    /\ pc[t] \in {"mu.lock", "once.in"}
    /\ MuLockFree
    /\ pc' = [pc EXCEPT ![t] = IF pc[t] = "once.in" THEN "once.held" ELSE "mu.held"]
    /\ ev' = NoEv
    /\ UNCHANGED <<book, tb, tbClock, tbAllowed, users, foreignKeys, slots, now, arg,
                   snap, timers, tm, stopped, restarts, won, sent, afterCancel>>

\* s.mu.RLock() returns
LkRAcquire(t) ==
    /\ pc[t] = "mu.rlock"
    /\ MuRLockFree
    /\ pc' = [pc EXCEPT ![t] = "mu.rheld"]
    /\ ev' = NoEv
    /\ UNCHANGED <<book, tb, tbClock, tbAllowed, users, foreignKeys, slots, now, arg,
                   snap, timers, tm, stopped, restarts, won, sent, afterCancel>>

\* what the method does under the lock, and what it returns
LkBody(sch, tbl, call, clock) ==
    CASE call.op = "Start" ->
           [err |-> IF sch.stopped THEN "stopped" ELSE "nil", sch |-> sch]
      [] call.op = "Schedule" ->
           Schedule(sch, GetSlotByID(tbl, call.slot).slot, call.at, clock)
      [] call.op = "Cancel" -> [err |-> "nil", sch |-> Cancel(sch, call.slot)]
      [] call.op = "ReschedulePending" -> [err |-> "nil", sch |-> ReschedulePending(sch)]
      [] call.op = "Stop" -> [err |-> "nil", sch |-> Stop(sch)]
      [] OTHER -> [err |-> "nil", sch |-> sch]

\* the critical section and the deferred Unlock: the method returns
LkReturn(t) ==
    /\ pc[t] \in {"mu.held", "once.held", "mu.rheld"}
    /\ snap[t].op = "Stop" => StopMayFinish(tm)
    /\ SetSch(LkBody(Sch, slots, snap[t], now).sch)
    /\ ev' = Returned(snap[t].op, LkBody(Sch, slots, snap[t], now).err)
    /\ pc' = [pc EXCEPT ![t] = "idle"]
    /\ snap' = [snap EXCEPT ![t] = NoSnap]
    /\ UNCHANGED <<book, tb, tbClock, tbAllowed, users, foreignKeys, slots, now, arg,
                   restarts, won, sent, afterCancel>>

\* handleNotification: s.mu.Lock() returns
HnLock(i) ==
    /\ tm[i].st = "del"
    /\ MuLockFree
    /\ tm' = [tm EXCEPT ![i].st = "locked"]
    /\ ev' = NoEv
    /\ UNCHANGED <<book, tb, tbClock, tbAllowed, users, foreignKeys, slots, now, pc, arg,
                   snap, timers, stopped, restarts, won, sent, afterCancel>>

\* handleNotification: delete(s.timers, slot.ID); s.mu.Unlock()
HnUnlock(i) ==
    /\ tm[i].st = "locked"
    /\ timers' = [timers EXCEPT ![tm[i].slot] = NoTimer]
    /\ tm' = [tm EXCEPT ![i].st = "send"]
    /\ ev' = NoEv
    /\ UNCHANGED <<book, tb, tbClock, tbAllowed, users, foreignKeys, slots, now, pc, arg,
                   snap, stopped, restarts, won, sent, afterCancel>>

NextLock ==
    \/ \E t \in Callers, op \in SchedOps, s \in 1..NLockSlots, at \in {MaxTime} :
          LkCall(t, op, s, at)
    \/ \E t \in Callers : LkOnce(t)
    \/ \E t \in Callers : LkAcquire(t)
    \/ \E t \in Callers : LkRAcquire(t)
    \/ \E t \in Callers : LkReturn(t)
    \/ Tick
    \/ \E i \in TimerIds : Fire(i)
    \/ \E i \in TimerIds : HnCheck(i)
    \/ \E i \in TimerIds : HnLock(i)
    \/ \E i \in TimerIds : HnUnlock(i)
    \/ \E i \in TimerIds : HnSend(i, FALSE)

SpecLock == InitSched /\ [][NextLock]_vars

\* SpecLockFair: the runtime runs every goroutine that can run, the sender
\* returns, and a goroutine waiting for a mutex gets it when it is free again
\* and again (sync.Mutex hands a starving waiter the lock)
LockFair ==
    /\ \A t \in Callers :
          /\ WF_vars(LkReturn(t))
          /\ SF_vars(LkOnce(t))
          /\ SF_vars(LkAcquire(t))
          /\ SF_vars(LkRAcquire(t))
    /\ WF_vars(\E i \in TimerIds : HnCheck(i))
    /\ SF_vars(\E i \in TimerIds : HnLock(i))
    /\ WF_vars(\E i \in TimerIds : HnUnlock(i))
    /\ WF_vars(\E i \in TimerIds : HnSend(i, FALSE))

SpecLockFair == InitSched /\ [][NextLock]_vars /\ LockFair

\* ---- properties ------------------------------------------------------------------
SlotTime(s) == ParseSlotTime(slots[s].date, slots[s].startTime)
OtherSlotsFree(s) == \A o \in SlotIds \ {s} : slots[o].owner = NoUser

\* C1: of the concurrent Service.ReserveSlot calls on a free slot, with no
\* cancel in between and a storage that executes its statements, exactly one
\* succeeds and every other one returns the already-reserved error; the slot
\* is owned by the successful caller.
C1_MutualExclusion ==
    /\ [](\A s \in SlotIds :
            /\ Cardinality(won[s]) <= 1
            /\ won[s] # {} => slots[s].owner \in won[s]
            /\ won[s] = {} => slots[s].owner = NoUser)
    /\ [][\A t \in Callers, s \in SlotIds :
            /\ SvcReserve(t, s, FALSE) =>
                 IF won[s] = {}
                 THEN slots'[s].owner = t /\ won'[s] = {t} /\ pc'[t] = "get"
                 ELSE ev' = Returned("ReserveSlot", "unavailable") /\ slots' = slots
            /\ (SvcSchedule(t) /\ arg[t] = s /\ t \in won[s]) =>
                 ev' = Returned("ReserveSlot", "nil") /\ slots'[s].owner = t]_vars

\* a second caller has just been refused the only reserved slot while the first
\* one is still inside its call
C1_Witness ==
    \E s \in SlotIds, t \in Callers :
        /\ ev = Returned("ReserveSlot", "unavailable")
        /\ won[s] = {t} /\ slots[s].owner = t
        /\ pc[t] \in {"get", "sched"} /\ arg[t] = s
        /\ OtherSlotsFree(s)

\* C2: a reservation that is not cancelled before its start time has its
\* reminder delivered exactly once, whatever the restarts: once the start time
\* has come and nothing is left to run for the slot, one reminder was delivered,
\* and never more than one.
Quiet(s) ==
    /\ \A t \in Callers : arg[t] # s
    /\ \A i \in TimerIds : tm[i].st = "free" \/ tm[i].slot # s

C2_ExactlyOnce ==
    \A s \in SlotIds :
        /\ sent[s] <= 1
        /\ (slots[s].owner # NoUser /\ SlotTime(s) <= now /\ Quiet(s)) => sent[s] = 1

\* C3: a timer that Schedule replaced before it delivered never delivers.
C3_ReplacedNeverDelivers ==
    [][\A i \in TimerIds :
         (HnSend(i, TRUE) /\ ev'.err = "nil") => tm[i].removedBy # "Schedule"]_vars

\* C4: startup recovery leaves exactly one live timer for each reserved and
\* unnotified slot, set to that slot's date and start time, and no other timer.
C4_RecoveryFidelity ==
    [][restarts' = restarts + 1 =>
         /\ \A s \in SlotIds :
              s \in GetPendingNotifications(slots) <=>
                 \E i \in TimerIds : /\ tm'[i].st # "free"
                                     /\ tm'[i].slot = s
                                     /\ tm'[i].at = SlotTime(s)
         /\ Cardinality(Live(tm')) = Cardinality(GetPendingNotifications(slots))]_vars

\* C5: ReserveSlot on a slot that has an owner (the caller included) or on an id
\* without a row returns an error and changes no slot.
C5_ReserveRefused ==
    [][\A s \in SlotIds \cup {MissingSlot}, u \in Callers :
         (StoreReserve(s, u) /\ (s \notin DOMAIN slots \/ slots[s].owner # NoUser)) =>
             ev'.err # "nil" /\ slots' = slots]_vars

\* a reservation was refused and the reserved, notified slot is as it was
C5_Witness ==
    /\ ev = Returned("ReserveSlot", "unavailable")
    /\ \E s \in SlotIds : slots[s].owner # NoUser /\ slots[s].notified

\* C6: CancelSlot by the owner of the slot succeeds, frees the slot, resets its
\* notified flag and changes no other slot.
C6_CancelByOwner ==
    [][\A s \in SlotIds, u \in Callers :
         (StoreCancel(s, u) /\ slots[s].owner = u) =>
             /\ ev' = Returned("CancelSlot", "nil")
             /\ slots' = [slots EXCEPT ![s].owner = NoUser, ![s].notified = FALSE]]_vars

\* a cancel has just freed one slot while another stays reserved and notified
C6_Witness ==
    /\ ev = Returned("CancelSlot", "nil")
    /\ \E s \in SlotIds, o \in SlotIds :
         /\ o # s
         /\ afterCancel[s] /\ slots[s].owner = NoUser /\ ~slots[s].notified
         /\ slots[o].owner # NoUser /\ slots[o].notified

\* C7: CancelSlot returns an error and changes no slot when the slot belongs to
\* another user, is free, or does not exist.
C7_CancelRefused ==
    [][\A s \in SlotIds \cup {MissingSlot}, u \in Callers :
         (StoreCancel(s, u) /\ (s \notin DOMAIN slots \/ slots[s].owner # u)) =>
             ev'.op = "CancelSlot" /\ ev'.err # "nil" /\ slots' = slots]_vars

\* a cancel was refused while every slot is reserved
C7_Witness ==
    /\ ev = Returned("CancelSlot", "notowner")
    /\ \A s \in SlotIds : slots[s].owner # NoUser

\* C8: after a successful CancelSlot, the next ReserveSlot on the slot succeeds
\* for any user, its former owner included.
C8_CancelThenReserve ==
    [][\A s \in SlotIds, u \in Callers :
         (StoreReserve(s, u) /\ afterCancel[s]) =>
             /\ ev'.err = "nil"
             /\ slots'[s].owner = u
             /\ ~afterCancel'[s]]_vars

\* a slot freed by a cancel has just been reserved again
C8_Witness ==
    /\ ev = Returned("ReserveSlotAgain", "nil")
    /\ \E s \in SlotIds : slots[s].owner # NoUser /\ ~afterCancel[s]

\* C9: Service.ReserveSlot reaches scheduler.Schedule only through a successful
\* storage.ReserveSlot of the same call; a call whose storage.ReserveSlot fails
\* returns at once and creates, replaces and removes no timer.
C9_ScheduleOnlyAfterReserve ==
    [][\A t \in Callers :
         /\ \A s \in SlotIds, dbFail \in BOOLEAN :
              SvcReserve(t, s, dbFail) =>
                 /\ UNCHANGED <<timers, tm, stopped>>
                 /\ pc'[t] \in {"get", "idle"}
                 /\ pc'[t] = "get" <=>
                      (~dbFail /\ slots[s].owner = NoUser /\ slots'[s].owner = t /\ arg'[t] = s)
         /\ (pc'[t] = "sched" /\ pc[t] # "sched") => (pc[t] = "get" /\ arg'[t] = arg[t])
         /\ SvcSchedule(t) => pc[t] = "sched"]_vars

\* a call was refused by the storage and the timer of the reserved slot is armed
C9_Witness ==
    /\ ev = Returned("ReserveSlot", "unavailable")
    /\ \E s \in SlotIds :
         /\ slots[s].owner # NoUser
         /\ timers[s] # NoTimer
         /\ tm[timers[s]].st = "armed"

\* C10: when Service.ReserveSlot returns success with the scheduler running and
\* the slot's start in the future, one timer is registered for the slot id,
\* and it fires at the slot's date and start time.
C10_OneTimerAtSlotTime ==
    [][\A t \in Callers :
         (SvcSchedule(t) /\ ~stopped /\ SlotTime(arg[t]) > now) =>
             /\ ev' = Returned("ReserveSlot", "nil")
             /\ timers'[arg[t]] # NoTimer
             /\ tm'[timers'[arg[t]]].st = "armed"
             /\ tm'[timers'[arg[t]]].at = SlotTime(arg[t])
             /\ {i \in TimerIds : tm'[i].st = "armed" /\ tm'[i].slot = arg[t]}
                    = {timers'[arg[t]]}]_vars

\* a reservation has just returned success and its slot, which starts later,
\* has its timer
C10_Witness ==
    /\ ev = Returned("ReserveSlot", "nil")
    /\ ~stopped
    /\ \E s \in SlotIds :
         /\ slots[s].owner # NoUser
         /\ SlotTime(s) > now
         /\ timers[s] # NoTimer
         /\ tm[timers[s]] = [st |-> "armed", slot |-> s, chat |-> slots[s].owner,
                             at |-> SlotTime(s), removedBy |-> "none"]

\* C11: when Service.ReserveSlot returns an error, the slot is not left
\* reserved for the caller by that call.
C11_ErrorMeansNotReserved ==
    [][\A t \in Callers :
         /\ \A s \in SlotIds, dbFail \in BOOLEAN :
              (SvcReserve(t, s, dbFail) /\ ev'.op = "ReserveSlot" /\ ev'.err # "nil") =>
                  slots' = slots
         /\ \A dbFail \in BOOLEAN :
              (SvcGet(t, dbFail) /\ ev'.op = "ReserveSlot" /\ ev'.err # "nil") =>
                  slots'[arg[t]].owner # t]_vars

\* C12: when scheduler.Schedule fails because the scheduler is stopped,
\* Service.ReserveSlot returns success, the slot stays owned by the caller and
\* no timer is installed.
C12_NoRollback ==
    [][\A t \in Callers :
         (SvcSchedule(t) /\ stopped) =>
             /\ Schedule(Sch, snap[t], NotifyAt(snap[t]), now).err = "stopped"
             /\ ev' = Returned("ReserveSlot", "nil")
             /\ slots' = slots
             /\ slots'[arg[t]].owner = t
             /\ UNCHANGED <<timers, tm>>]_vars

\* a reservation has just returned success from a stopped scheduler
C12_Witness ==
    /\ stopped
    /\ ev = Returned("ReserveSlot", "nil")
    /\ \E s \in SlotIds : slots[s].owner # NoUser /\ timers[s] = NoTimer

\* C13: a storage failure during a reserve request is told to the user neither
\* as "this slot is already taken" nor as success.
C13_FailureDistinct ==
    (ev.op = "ReserveSlot" /\ ev.err = "dberr") =>
        SlotSelectionAnswer(ev.err) \notin {"taken", "booked"}

\* C14: after a successful cancellation (storage.CancelSlot, then
\* scheduler.Cancel) no timer of the slot is registered and no reminder of the
\* cancelled reservation is delivered.
C14_CancelSilencesTimer ==
    [][/\ \A s \in SlotIds : (SchedCancel(s) /\ afterCancel[s]) => timers'[s] = NoTimer
       /\ \A i \in TimerIds :
            (HnSend(i, TRUE) /\ ev'.err = "nil" /\ afterCancel[tm[i].slot]) =>
                tm[i].removedBy # "Cancel"]_vars

\* C15: a reminder is delivered only to the user who owns the slot in the store
\* when it is delivered.
C15_ReminderToOwner ==
    [][\A i \in TimerIds :
         (HnSend(i, TRUE) /\ ev'.err = "nil") => slots[tm[i].slot].owner = tm[i].chat]_vars

\* C16, as stated: after Schedule returns success the registry holds a timer
\* for the slot id.
Armed(tbl, s) == {i \in TimerIds : tbl[i].st = "armed" /\ tbl[i].slot = s}

C17_CancelLeavesNoTimer ==
    [][\A s \in SlotIds :
         SchedCancel(s) => (timers'[s] = NoTimer /\ Armed(tm', s) = {})]_vars

\* C18: Cancel for a slot id without a registered timer returns success and
\* leaves the scheduler as it was; a second Cancel changes nothing.
C18_CancelIdempotent ==
    /\ [](\A s \in SlotIds : Cancel(Cancel(Sch, s), s) = Cancel(Sch, s))
    /\ [][\A s \in SlotIds :
            (SchedCancel(s) /\ timers[s] = NoTimer) =>
                /\ ev' = Returned("CancelNoTimer", "nil")
                /\ UNCHANGED <<timers, tm, stopped>>]_vars

\* Cancel has just returned for a slot without a timer, the timer of another
\* slot stays registered
C18_Witness ==
    /\ ev = Returned("CancelNoTimer", "nil")
    /\ \E s \in SlotIds : timers[s] # NoTimer /\ tm[timers[s]].st = "armed"

\* C19: after Stop has returned, Schedule returns an error and installs no
\* timer, and every timer that was pending at Stop is stopped and out of the
\* registry.
C19_StopTerminates ==
    [][/\ SchedStop =>
            /\ stopped'
            /\ \A s \in SlotIds : timers'[s] = NoTimer
            /\ \A i \in TimerIds : tm'[i].st # "armed"
       /\ \A s \in SlotIds, at \in 0..MaxTime + 1 :
            (SchedSchedule(s, at) /\ stopped) =>
                /\ ev' = Returned("Schedule", "stopped")
                /\ UNCHANGED <<timers, tm, stopped>>]_vars

\* C20: a second or later Stop returns success and changes nothing of the
\* scheduler.
C20_StopIdempotent ==
    /\ [](Stop(Stop(Sch)) = Stop(Sch))
    /\ [][(SchedStop /\ stopped) =>
            /\ ev' = Returned("StopAgain", "nil")
            /\ UNCHANGED <<timers, tm, stopped>>]_vars

\* Stop has returned a second time while a notification goroutine is running
C20_Witness ==
    /\ ev = Returned("StopAgain", "nil")
    /\ stopped
    /\ \E i \in TimerIds : tm[i].st \in {"del", "send"}

\* C21: Schedule with a fire time at or before now returns success in the step
\* that starts the goroutine of handleNotification, before any step of it has
\* run and with no timer registered; the goroutine then reaches the sender,
\* and the sender is called, unless the scheduler is stopped.
Running(tbl, s, st) == {i \in TimerIds : tbl[i].st = st /\ tbl[i].slot = s}

C21_PastDueAsync ==
    /\ [][\A s \in SlotIds, at \in 0..MaxTime + 1 :
            (SchedSchedule(s, at) /\ ~stopped /\ at <= now) =>
                /\ ev' = Returned("Schedule", "nil")
                /\ Cardinality(Running(tm', s, "check")) =
                     Cardinality(Running(tm, s, "check")) + 1
                /\ Cardinality(Running(tm', s, "send")) = Cardinality(Running(tm, s, "send"))
                /\ timers'[s] = NoTimer
                /\ sent' = sent]_vars
    /\ \A s \in SlotIds :
         (~stopped /\ Running(tm, s, "check") # {}) ~>
             (stopped \/ Running(tm, s, "send") # {})
    /\ (\E i \in TimerIds : tm[i].st = "send") ~> (ev.op = "SendSlotReminder")

\* Schedule has just returned for a fire time that has passed: the goroutine
\* of the slot has not run yet and the slot has no timer
C21_Witness ==
    /\ ev = Returned("Schedule", "nil")
    /\ ~stopped
    /\ \E s \in SlotIds :
         /\ Running(tm, s, "check") # {}
         /\ timers[s] = NoTimer
         /\ Armed(tm, s) = {}
         /\ sent[s] = 0

\* C22: the callback of a fired timer deletes the map entry of its slot before
\* it calls the sender: while the sender runs, the fired timer is not in the
\* registry; a failed send registers and re-arms nothing; Cancel for the slot
\* during the send returns success, leaves the sending goroutine alone, and
\* changes nothing when no newer timer is registered.
SameRegistry ==
    \A s \in SlotIds :
        IF timers[s] = NoTimer THEN timers'[s] = NoTimer
        ELSE timers'[s] # NoTimer /\ tm'[timers'[s]] = tm[timers[s]]

Sending == {i \in TimerIds : tm[i].st = "send"}

C25_DeliveredIsNotified ==
    [][\A i \in TimerIds :
         (HnSend(i, TRUE) /\ ev'.err = "nil" /\ slots[tm[i].slot].owner = tm[i].chat) =>
             /\ slots'[tm[i].slot].notified
             /\ tm[i].slot \notin GetPendingNotifications(slots')]_vars

\* C26: a free slot is never notified: notified becomes true only on a slot
\* that is reserved and not notified, and cancel resets it.
C26_FreeIsUnnotified ==
    /\ [](\A s \in SlotIds : slots[s].owner = NoUser => ~slots[s].notified)
    /\ [][\A s \in SlotIds :
            /\ (slots'[s].notified /\ ~slots[s].notified) => slots[s].owner # NoUser
            /\ (slots'[s].owner = NoUser /\ slots[s].owner # NoUser) => ~slots'[s].notified]_vars

\* C27: when ReschedulePending returns the registry is empty, and no timer it
\* dropped delivers a reminder afterwards.
C27_DroppedNeverDeliver ==
    [][/\ SchedReschedulePending => \A s \in SlotIds : timers'[s] = NoTimer
       /\ \A i \in TimerIds :
            (HnSend(i, TRUE) /\ ev'.err = "nil") => tm[i].removedBy # "ReschedulePending"]_vars

\* C28: no two rows of the slots table have the same date and start time; a
\* CreateSlot for a date and start time that has a row fails and adds no row,
\* also when generations of one date run again or at the same time.
SameInstant(tbl, date, startTime) ==
    {id \in DOMAIN tbl : tbl[id].date = date /\ tbl[id].startTime = startTime}

Today == now \div TicksPerDay
TimeOfDay == now % TicksPerDay

C29_TodayFiltered ==
    \A date \in 0..MaxDate :
        GetAvailableSlots(slots, date) =
            {id \in DOMAIN slots :
                /\ slots[id].date = date
                /\ slots[id].owner = NoUser
                /\ date = Today => slots[id].startTime > TimeOfDay}

\* C30: ReserveSlot for a chat id without a row in the users table fails and
\* leaves the slot free; the owner of a slot is always a registered chat id.
C30_OwnerIsRegistered ==
    /\ [](\A s \in SlotIds : slots[s].owner # NoUser => slots[s].owner \in users)
    /\ [][\A s \in SlotIds, u \in Callers :
            (StoreReserve(s, u) /\ u \notin users) =>
                ev'.err # "nil" /\ slots' = slots]_vars

C32_BucketBounds ==
    /\ [](/\ tb.tokens >= 0 /\ tb.tokens <= tb.capacity
          /\ tbAllowed <= tb.capacity + tb.refillRate * (tbClock \div TicksPerSecond))
    /\ [][AllowStep =>
            LET filled == Min(tb.capacity,
                              tb.tokens + ((tbClock - tb.lastRefill) \div TicksPerSecond)
                                              * tb.refillRate)
            IN IF ev'.err = "allowed"
               THEN tb'.tokens = filled - 1 /\ tbAllowed' = tbAllowed + 1
               ELSE tb'.tokens = 0 /\ filled = 0 /\ tbAllowed' = tbAllowed]_vars

\* a call has just been allowed from a refilled bucket that had run empty, and
\* the allowed calls are as many as the bound lets them be
C32_Witness ==
    /\ ev = Returned("Allow", "allowed")
    /\ tbClock >= TicksPerSecond
    /\ tb.refillRate > 0
    /\ tb.tokens = 0
    /\ tbAllowed = tb.capacity + tb.refillRate * (tbClock \div TicksPerSecond)

\* C40: from an empty bucket with a refill rate of at least 1, a caller that
\* keeps calling Allow while time passes is allowed again.
C40_EventuallyAllowed ==
    (tb.tokens = 0 /\ tb.refillRate >= 1) ~> (ev = Returned("Allow", "allowed"))

\* C33: the callback of a timer of a slot, or a goroutine started for a past
\* fire time, leaves the registry entry of a timer that a later Schedule
\* installed for the slot: every armed timer is the registry entry of its slot.
C33_ArmedIsRegistered ==
    /\ [](\A i \in TimerIds : tm[i].st = "armed" => timers[tm[i].slot] = i)
    /\ [][\A i \in TimerIds :
            (HnDelete(i) /\ timers[tm[i].slot] \notin {NoTimer, i}) =>
                timers'[tm[i].slot] # NoTimer]_vars

\* C34: BookTimeSlot for a start time that another user has booked returns an
\* error, and no two rows of one start time both have a user.
BookedBy(tbl, slotTime) ==
    {tbl[id].user : id \in {r \in DOMAIN tbl : tbl[r].startTime = slotTime
                                                /\ tbl[r].user # NoUser}}

C34_NoDoubleBooking ==
    /\ [](\A a \in DOMAIN book, b \in DOMAIN book :
            (a # b /\ book[a].startTime = book[b].startTime) =>
                (book[a].user = NoUser \/ book[b].user = NoUser))
    /\ [][\A t \in Callers :
            ((BookUpdate(t) \/ BookInsert(t))
               /\ BookedBy(book, snap[t].startTime) \ {snap[t].chat} # {}) =>
                (ev'.op = "none" \/ ev'.err # "nil")]_vars

\* C35: no user has more than one booking with a start time in the future.
C35_OneActiveBooking ==
    \A u \in Callers : Cardinality(GetUserActiveSlot(book, u, now)) <= 1


\* C36: once Stop has returned, no callback and no past-due goroutine calls
\* SendSlotReminder, also one that started before Stop and had not yet sent
C36_NoSendAfterStop ==
    [][\A i \in TimerIds, sendOk \in BOOLEAN : HnSend(i, sendOk) => ~stopped]_vars


\* C37: whenever the stopped flag is set the timer registry is empty, whatever
\* the order of Schedule, Cancel, ReschedulePending, Stop and the callbacks
C37_StoppedIsEmpty ==
    stopped => \A s \in SlotIds : timers[s] = NoTimer

\* Schedule was refused after Stop while a callback started before is running
C37_Witness ==
    /\ stopped
    /\ ev = Returned("Schedule", "stopped")
    /\ \E i \in TimerIds : tm[i].st \in {"del", "send"}


\* C38: SaveUser for a chat id that is registered already, with foreign keys
\* enforced, leaves the owner and the notified flag of every slot as they were
C38_SaveUserKeepsSlots ==
    [][\A u \in Callers :
          (UserSave(u) /\ u \in users /\ foreignKeys) =>
              \A s \in SlotIds : /\ slots'[s].owner = slots[s].owner
                                 /\ slots'[s].notified = slots[s].notified]_vars


\* a step of a method call or callback that has begun
LkProgress ==
    \/ \E t \in Callers : LkOnce(t) \/ LkAcquire(t) \/ LkRAcquire(t) \/ LkReturn(t)
    \/ \E i \in TimerIds : HnCheck(i) \/ HnLock(i) \/ HnUnlock(i)
    \/ \E i \in TimerIds : HnSend(i, FALSE)

LkBusy ==
    \/ \E t \in Callers : pc[t] # "idle"
    \/ \E i \in TimerIds : tm[i].st \in {"check", "del", "locked", "send"}

\* C39: no interleaving of Start, Schedule, Cancel, ReschedulePending, Stop,
\* GetActiveTimersCount and the callbacks deadlocks. While a call or callback
\* is under way one of them can take a step, at most one goroutine writes
\* under s.mu and none reads beside it, and every call returns.
C39_NoDeadlock ==
    /\ [](LkBusy => ENABLED LkProgress)
    /\ [](Cardinality(Writers) + Cardinality(HnHolders) <= 1
            /\ (Readers # {} => Writers = {} /\ HnHolders = {}))
    /\ \A t \in Callers : (pc[t] # "idle") ~> (pc[t] = "idle")

\* Stop waits for s.mu, which a callback holds, while the other caller waits
\* behind stopOnce
C39_Witness ==
    /\ HnHolders # {}
    /\ \E t \in Callers : pc[t] = "once.in"
    /\ \E t \in Callers : pc[t] = "once"

============================================================================
